---- MODULE Spec2Model ----
(***************************************************************************)
(* Model of the AI news reader API (src/app.py): the run trigger          *)
(* POST /api/fetch-news, the background run thread, the ingestion         *)
(* pipeline run_pipeline, the status poll GET /api/fetch-status and the   *)
(* article / source administration routes.                                *)
(*                                                                         *)
(* Python threads interleave between statements: every read or write of   *)
(* a global (FETCH_STATUS, fetch_lock) and every store operation is a     *)
(* step of its own; statements that touch only locals are folded into the *)
(* step that follows them.                                                 *)
(***************************************************************************)
EXTENDS Integers, Sequences, FiniteSets, TLC

\* ------------------------------------------------------------------ bounds
\* Trigger requests issued in one behaviour, numbered in arrival order.
MaxTriggers == 2
\* Status-poll requests that may be in flight at the same time.
MaxQueries == 2
\* Rows the FeedSource table may hold.
MaxSources == 1

Runs == 1..MaxTriggers
Queries == 1..MaxQueries
SourceIds == 1..MaxSources
\* FeedSource rows in the table when the claims are about a run over several
\* sources.
MaxFeeds == 2
FeedIds == 1..MaxFeeds

Statuses == {"idle", "running", "completed", "error"}
Terminal == {"completed", "error"}

\* The request bodies of POST /api/fetch-news, by what lines 336-355 do with them:
\*   "all"     no body value, {} or a falsy source_ids: every source is fetched
\*   "list"    {"source_ids": [..]} with a non-empty list
\*   "badjson" request.get_json() raises (app.py:336)
\*   "nondict" a truthy JSON array, number or string: data.get raises (app.py:337)
\*   "scalar"  {"source_ids": 5} or true: truthy and without len() (app.py:355)
\*   "string"  {"source_ids": "1"}: has len(), but is no list for in_() (app.py:192)
Bodies == {"all", "list", "badjson", "nondict", "scalar", "string"}

\* ------------------------------------------------------------------- text
\* Text is a sequence of characters; " " and "\n" are its whitespace.
Whitespace == {" ", "\n"}

RECURSIVE LStripChars(_, _)
\* str.lstrip(chars): the leading characters that are in chars are dropped.
LStripChars(s, chars) ==
    IF s # <<>> /\ Head(s) \in chars THEN LStripChars(Tail(s), chars) ELSE s

RECURSIVE RStripChars(_, _)
\* str.rstrip(chars): the trailing characters that are in chars are dropped.
RStripChars(s, chars) ==
    IF s # <<>> /\ s[Len(s)] \in chars
    THEN RStripChars(SubSeq(s, 1, Len(s) - 1), chars)
    ELSE s

\* str.strip(): leading and trailing whitespace is dropped.
Strip(s) == RStripChars(LStripChars(s, Whitespace), Whitespace)

\* ------------------------------------------------------------ feed entries
\* An entry's title is its first 300 characters (head) and what follows them
\* (tail, "" for a title of at most 300 characters).
NoTitle == [head |-> "-", tail |-> "-"]
Titles == {[head |-> "A", tail |-> ""], [head |-> "B", tail |-> ""],
           [head |-> "A", tail |-> "x"]}

\* entry.title[:300] (app.py:235).
Truncate300(t) == [head |-> t.head, tail |-> ""]

\* entry.link: a URL, the empty string, or no such attribute.
NoLink == "-"
Links == {"", "u1"}

\* entry.summary: markup ("<p>" is a tag, the other characters are text), or
\* no such attribute.
NoSummary == <<"-">>
Summaries == {<<"<p>", " ", "<p>">>, <<"<p>", " ", "a", "<p>", "b", " ">>}

\* Hours in a day, and the staleness window of app.py:217 in days.
HoursPerDay == 24
StaleDays == 3

\* now - pub_date in hours, pub_date as parse_publication_date_pipeline gives it:
\* an hour in the future, 2 days 23 hours, exactly 3 days, 10 days.
Ages == {-1, 71, 72, 240}

\* What a feed may serve as one entry.
Entries ==
    [title : Titles \cup {NoTitle}, link : Links \cup {NoLink},
     summary : Summaries \cup {NoSummary}, age : Ages]

\* The entries a feed serves: any, or those that are an hour ahead of now and
\* have a summary with text or none.
Served(which) ==
    IF which = "any" THEN Entries
    ELSE {e \in Entries : /\ e.age = -1
                          /\ e.summary # <<"<p>", " ", "<p>">>
                          /\ e.title # [head |-> "A", tail |-> "x"]}

NoEntry == [title |-> NoTitle, link |-> NoLink, summary |-> NoSummary, age |-> 0]

\* timedelta.days: whole days, rounded down (negative for a future date).
Days(age) == age \div HoursPerDay

\* The staleness test with > in the place of >=.
IsStale_Over(e) == Days(e.age) > StaleDays

\* app.py:217: the entry is stale.
IsStale(e) == Days(e.age) >= StaleDays

RECURSIVE TextPieces(_, _)
\* The text nodes of the markup, in order: maximal runs of text between tags.
TextPieces(m, cur) ==
    IF m = <<>> THEN <<cur>>
    ELSE IF Head(m) = "<p>" THEN <<cur>> \o TextPieces(Tail(m), <<>>)
    ELSE TextPieces(Tail(m), Append(cur, Head(m)))

RECURSIVE JoinPieces(_)
\* The stripped text nodes that are not empty, joined by "\n".
JoinPieces(ps) ==
    IF ps = <<>> THEN <<>>
    ELSE LET p == Strip(Head(ps))
             rest == JoinPieces(Tail(ps))
         IN IF p = <<>> THEN rest
            ELSE IF rest = <<>> THEN p
            ELSE p \o <<"\n">> \o rest

\* BeautifulSoup(getattr(entry, 'summary', ''), 'html.parser')
\*     .get_text(separator='\n', strip=True)          (app.py:227)
GetText(e) ==
    IF e.summary = NoSummary THEN <<>> ELSE JoinPieces(TextPieces(e.summary, <<>>))

\* ------------------------------------------- the relevance classifier
\* The JSON documents the remote model may put in its answer text, each one
\* character of the text. Objects are written {is_ai_related, rewritten_content}.
JsonObjects ==
    {"{true,X}", "{true,}", "{true, }", "{false,}", "{false,X}", "{yes,X}",
     "{true}", "{}"}
JsonDocs == JsonObjects \cup {"[]"}

\* parsed_json.get('is_ai_related', False), as Python's truth value of it.
IsAiRelated(d) == d \in {"{true,X}", "{true,}", "{true, }", "{yes,X}", "{true}"}

\* parsed_json.get('rewritten_content', '').
RewrittenContent(d) ==
    CASE d \in {"{true,X}", "{false,X}", "{yes,X}"} -> <<"X">>
      [] d = "{true, }" -> <<" ">>
      [] OTHER -> <<>>

\* The characters that lstrip and rstrip drop at app.py:165; "^" stands for
\* the backquote.
FenceOpenChars == {"^", "j", "s", "o", "n"}
FenceCloseChars == {"^"}

Fence == <<"^", "^", "^">>

\* The answer texts: a document bare, fenced with and without the language
\* tag, behind a stray "json", followed by other text, and texts without a
\* document.
AnswerTexts ==
    UNION {{<<d>>,
            Fence \o <<"j", "s", "o", "n", "\n", d, "\n">> \o Fence,
            Fence \o <<d>> \o Fence,
            <<" ", "j", "s", "o", "n", " ", d>>,
            <<d, "x">>} : d \in JsonDocs}
    \cup {<<>>, <<"x">>, Fence \o <<"j", "s", "o", "n">> \o Fence}

\* What one requests.post to the remote endpoint comes to (app.py:155-162):
\*   "neterr"  requests.post raises ConnectionError or Timeout
\*   "status"  a non-2xx answer: raise_for_status() raises HTTPError
\*   "badenv"  a 2xx answer whose body is not the JSON envelope with
\*             candidates[0].content.parts[0].text (ValueError, KeyError, ..)
\*   "text"    a 2xx answer carrying the text
RemoteResponses ==
    {[kind |-> k, text |-> <<>>] : k \in {"neterr", "status", "badenv"}}
    \cup {[kind |-> "text", text |-> t] : t \in AnswerTexts}

\* The exception classes of app.py:154-180 and which handler catches which.
RequestExceptions == {"ConnectionError", "HTTPError"}
Exceptions == RequestExceptions \cup {"JSONDecodeError", "KeyError", "AttributeError"}

\* app.py:165: raw_text.strip().lstrip(fence + 'json').rstrip(fence).strip().
CleanText(raw) ==
    Strip(RStripChars(LStripChars(Strip(raw), FenceOpenChars), FenceCloseChars))

\* json.loads: the text is exactly one document, or JSONDecodeError.
JsonLoads(t) ==
    IF Len(t) = 1 /\ t[1] \in JsonDocs
    THEN [exc |-> "none", doc |-> t[1]]
    ELSE [exc |-> "JSONDecodeError", doc |-> "[]"]

Outcome(relevant, summary, requests, exc) ==
    [relevant |-> relevant, summary |-> summary, requests |-> requests, raised |-> exc]

\* app.py:155-173, the body of the outer try: what it returns, or the
\* exception that leaves it (raised # "none").
GeminiTry(content, resp) ==
    CASE resp.kind = "neterr" -> Outcome(FALSE, <<>>, 1, "ConnectionError")
      [] resp.kind = "status" -> Outcome(FALSE, <<>>, 1, "HTTPError")
      [] resp.kind = "badenv" -> Outcome(FALSE, <<>>, 1, "KeyError")
      [] OTHER ->
          LET parsed == JsonLoads(CleanText(resp.text))
          IN  IF parsed.exc = "JSONDecodeError"
              THEN Outcome(TRUE, content, 1, "none")              \* app.py:167-169
              ELSE IF parsed.doc \notin JsonObjects
              THEN Outcome(FALSE, <<>>, 1, "AttributeError")      \* app.py:171
              ELSE LET is_relevant == IsAiRelated(parsed.doc)
                   IN Outcome(is_relevant,
                              IF is_relevant THEN RewrittenContent(parsed.doc)
                              ELSE <<>>, 1, "none")               \* app.py:171-173

\* The handlers of app.py:175-178 without the second one.
GeminiCaught_RequestOnly == RequestExceptions

\* The exceptions the handlers of app.py:175-178 catch.
GeminiCaught == Exceptions

\* The classifier without the test of app.py:140: it always asks the remote
\* endpoint.
analyze_and_rewrite_NoBypass(key, content, title, resp) ==
    LET try == GeminiTry(content, resp)
    IN  IF try.raised = "none" THEN try
        ELSE Outcome(TRUE, content, try.requests, "none")

\* analyze_and_rewrite_with_gemini_pipeline(content, title), the remote
\* endpoint answering resp; key: config.GEMINI_API_KEY is set.
analyze_and_rewrite_with_gemini_pipeline(key, content, title, resp) ==
    IF ~key THEN Outcome(TRUE, content, 0, "none")                \* app.py:140-142
    ELSE LET try == GeminiTry(content, resp)
         IN  IF try.raised = "none" THEN try
             ELSE IF try.raised \in GeminiCaught
             THEN Outcome(TRUE, content, try.requests, "none")    \* app.py:175-180
             ELSE try

\* ------------------------------------------------- the company tagger
\* A text is a sequence of pieces: a space, a comma, or a run of letters that
\* holds neither; adjacent letter pieces read as one word ("sn", "apple" is
\* "snapple").
MaxTextLen == 3
TextPieceSet == {" ", ",", "Apple", "apple", "sn", "Google"}
RECURSIVE SeqsUpTo(_, _)
SeqsUpTo(S, n) ==
    IF n = 0 THEN {<<>>}
    ELSE LET shorter == SeqsUpTo(S, n - 1)
         IN  shorter \cup {Append(t, x) : t \in shorter, x \in S}
Texts == SeqsUpTo(TextPieceSet, MaxTextLen)

\* str.lower() on a piece, and on a text.
Lower(x) ==
    CASE x = "Apple" -> "apple"
      [] x = "Google" -> "google"
      [] x = "OpenAI" -> "openai"
      [] x = "Meta" -> "meta"
      [] x = "Anthropic" -> "anthropic"
      [] x = "XAI" -> "xai"
      [] x = "Microsoft" -> "microsoft"
      [] x = "Amazon" -> "amazon"
      [] x = "NVIDIA" -> "nvidia"
      [] x = "Tesla" -> "tesla"
      [] OTHER -> x
LowerText(t) == [i \in 1..Len(t) |-> Lower(t[i])]

\* app.py:132.
companies ==
    <<"Google", "OpenAI", "Meta", "Anthropic", "XAI", "Microsoft", "Apple",
      "Amazon", "NVIDIA", "Tesla">>

\* needle in haystack, both sequences of pieces.
Contains(haystack, needle) ==
    \E i \in 0..(Len(haystack) - Len(needle)) :
        \A j \in 1..Len(needle) : haystack[i + j] = needle[j]

\* The test of app.py:135 without the spaces around the name and the text.
Mentions_Substring(text, company) ==
    Contains(LowerText(text), <<Lower(company)>>)

\* app.py:135: f' {company.lower()} ' in f' {text.lower()} '.
Mentions(text, company) ==
    Contains(<<" ">> \o LowerText(text) \o <<" ">>, <<" ", Lower(company), " ">>)

\* extract_related_company_pipeline(text) (app.py:130-136); "None" is None.
extract_related_company_pipeline(text) ==
    LET hits == {i \in 1..Len(companies) : Mentions(text, companies[i])}
    IN  IF hits = {} THEN "None"
        ELSE companies[CHOOSE i \in hits : \A j \in hits : i <= j]

\* ------------------------------------------------------------------ state
VARIABLES
    GEMINI_API_KEY,  \* config.py:18  TRUE iff a credential is configured
    served,          \* which entries the feeds of this behaviour can serve:
                     \* "any" of Entries, or the "dated" ones (see Served)
    FETCH_STATUS,    \* app.py:42   "idle" | "running" | "completed" | "error"
    fetch_lock,      \* app.py:44   TRUE iff the threading.Lock is held
    holder,          \* history: the trigger whose acquire holds fetch_lock (0: none)
    writer,          \* history: the run whose terminal status FETCH_STATUS holds (0: none)
    sources,         \* the FeedSource table: the ids of its rows
    articles,        \* the Article table: its rows
    hpc,             \* hpc[r]: where the handler of trigger r stands
    body,            \* body[r]: the request body of trigger r
    tpc,             \* tpc[r]: where the run thread of trigger r stands
    ids,             \* ids[r]: the source_ids the thread of r was started with
    feeds,           \* feeds[r]: the sources run r has still to process, in order
    feed,            \* feed[r]: what feedparser.parse gave run r for the source
                     \* it has just fetched ("none" once it has been looked at)
    entry,           \* entry[r]: the feed entry run r is processing
    outcome,         \* history: what became of the entry run r processed last
    kept,            \* history: kept[r]: the URLs of the entries run r got back from
                     \* the classifier as relevant with content, less those whose
                     \* Article has been deleted since
    events,          \* history: events[r]: what has happened in run_pipeline of
                     \* run r so far: "raised" (a feed fetch raised); {} once
                     \* the run's terminal status is set
    qpc,             \* qpc[q]: where status poll q stands ("done": answered)
    status_to_return,\* status_to_return[q]: the local of fetch_status (app.py:364),
                     \* which is the poll's answer (app.py:368)
    readOf,          \* history: the run whose terminal status poll q read (0: none)
    call,            \* the latest call of the classifier made on its own, with its result
    tagged           \* the latest call of the company tagger, with its result

configVars == <<GEMINI_API_KEY, served>>
lockVars == <<fetch_lock, holder>>
statusVars == <<FETCH_STATUS, writer>>
storeVars == <<sources, articles>>
handlerVars == <<hpc, body>>
threadVars == <<tpc, ids, feeds, feed, entry, outcome, kept, events>>
pollVars == <<qpc, status_to_return, readOf>>
callVars == <<call, tagged>>

vars == <<GEMINI_API_KEY, served, FETCH_STATUS, fetch_lock, holder, writer,
          sources, articles, hpc, body, tpc, ids, feeds, feed, entry, outcome,
          kept, events, qpc, status_to_return, readOf, call, tagged>>

NoBody == "-"
NoCall == [made |-> FALSE]
NoTag == [made |-> FALSE]

\* -------------------------------------------------------------- fetch_lock
\* threading.Lock.release() (app.py:350, 358): frees a held lock whoever holds
\* it; on an unheld lock it raises RuntimeError and changes nothing.
LockRelease ==
    /\ fetch_lock' = FALSE
    /\ holder' = 0

\* ------------------------------------------------ POST /api/fetch-news
\* Triggers are numbered in the order in which they arrive.
Arrives(r) ==
    /\ hpc[r] = "new"
    /\ \A p \in Runs : p < r => hpc[p] # "new"

\* app.py:332-333: the lock is held: 429, no thread.
fetch_news_busy(r) ==
    /\ Arrives(r)
    /\ fetch_lock
    /\ hpc' = [hpc EXCEPT ![r] = "done"]
    /\ UNCHANGED <<configVars, statusVars, lockVars, storeVars, body,
                   threadVars, pollVars, callVars>>

\* app.py:332: acquire(blocking=False) succeeds.
fetch_news_acquire(r) ==
    /\ Arrives(r)
    /\ ~fetch_lock
    /\ \E b \in Bodies : body' = [body EXCEPT ![r] = b]
    /\ fetch_lock' = TRUE
    /\ holder' = r
    /\ hpc' = [hpc EXCEPT ![r] = "parse"]
    /\ UNCHANGED <<configVars, statusVars, storeVars, threadVars, pollVars,
                   callVars>>

\* request.get_json() or data.get('source_ids') raises (app.py:336-337).
ParseRaises(b) == b \in {"badjson", "nondict"}

\* app.py:336-337 raise, 357-359: release and answer 500; no thread was started.
fetch_news_parse_error(r) ==
    /\ hpc[r] = "parse"
    /\ ParseRaises(body[r])
    /\ LockRelease
    /\ hpc' = [hpc EXCEPT ![r] = "done"]
    /\ body' = [body EXCEPT ![r] = NoBody]
    /\ UNCHANGED <<configVars, statusVars, storeVars, threadVars, pollVars,
                   callVars>>

\* source_ids as the thread receives it (app.py:337, 352): None for a falsy
\* value.
SourceIdsOf(b) == IF b = "all" THEN "none" ELSE b

\* app.py:336-353: the body parses; the run thread is started.
fetch_news_start_thread(r) ==
    /\ hpc[r] = "parse"
    /\ ~ParseRaises(body[r])
    /\ tpc' = [tpc EXCEPT ![r] = "start"]
    /\ ids' = [ids EXCEPT ![r] = SourceIdsOf(body[r])]
    /\ hpc' = [hpc EXCEPT ![r] = "respond"]
    /\ UNCHANGED <<configVars, statusVars, lockVars, storeVars, body, feeds,
                   entry, outcome, kept, feed, events, pollVars, callVars>>

\* len(source_ids) at app.py:355 raises TypeError for a truthy value without len().
LenRaises(b) == b = "scalar"

\* app.py:355-356: the message is built and 'started' is answered.
fetch_news_respond(r) ==
    /\ hpc[r] = "respond"
    /\ ~LenRaises(body[r])
    /\ hpc' = [hpc EXCEPT ![r] = "done"]
    /\ body' = [body EXCEPT ![r] = NoBody]
    /\ UNCHANGED <<configVars, statusVars, lockVars, storeVars, threadVars,
                   pollVars, callVars>>

\* app.py:355 raises after thread.start(); 357-359: the handler releases the lock
\* (RuntimeError if the lock is free by then) and answers 500.
fetch_news_respond_error(r) ==
    /\ hpc[r] = "respond"
    /\ LenRaises(body[r])
    /\ LockRelease
    /\ hpc' = [hpc EXCEPT ![r] = "done"]
    /\ body' = [body EXCEPT ![r] = NoBody]
    /\ UNCHANGED <<configVars, statusVars, storeVars, threadVars, pollVars,
                   callVars>>

\* ------------------------------------------------ run_background_fetch
\* app.py:341-344 and 185-186: FETCH_STATUS = "running", the log is cleared and
\* run_pipeline is entered.
run_background_fetch_start(r) ==
    /\ tpc[r] = "start"
    /\ FETCH_STATUS' = "running"
    /\ writer' = 0
    /\ tpc' = [tpc EXCEPT ![r] = "begin"]
    /\ UNCHANGED <<configVars, lockVars, storeVars, handlerVars, ids, feeds,
                   entry, outcome, kept, feed, events, pollVars, callVars>>

\* The except branch of app.py:345-347 without its status write.
run_background_fetch_except_Swallowed(r) ==
    /\ tpc[r] = "except"
    /\ tpc' = [tpc EXCEPT ![r] = "release"]
    /\ events' = [events EXCEPT ![r] = {}]
    /\ UNCHANGED <<configVars, statusVars, lockVars, storeVars, handlerVars,
                   ids, feeds, entry, outcome, kept, feed, pollVars, callVars>>

\* app.py:345-347: run_pipeline raised: FETCH_STATUS = "error".
run_background_fetch_except(r) ==
    /\ tpc[r] = "except"
    /\ FETCH_STATUS' = "error"
    /\ writer' = r
    /\ tpc' = [tpc EXCEPT ![r] = "release"]
    /\ events' = [events EXCEPT ![r] = {}]
    /\ UNCHANGED <<configVars, lockVars, storeVars, handlerVars, ids, feeds,
                   entry, outcome, kept, feed, pollVars, callVars>>

\* The thread ending without the finally clause of app.py:348-350.
run_background_fetch_release_Kept(r) ==
    /\ tpc[r] = "release"
    /\ tpc' = [tpc EXCEPT ![r] = "dead"]
    /\ UNCHANGED <<configVars, statusVars, lockVars, storeVars, handlerVars,
                   ids, feeds, entry, outcome, kept, feed, events, pollVars,
                   callVars>>

\* app.py:348-350: finally: fetch_lock.release(); the thread ends.
run_background_fetch_release(r) ==
    /\ tpc[r] = "release"
    /\ LockRelease
    /\ tpc' = [tpc EXCEPT ![r] = "dead"]
    /\ UNCHANGED <<configVars, statusVars, storeVars, handlerVars, ids, feeds,
                   entry, outcome, kept, feed, events, pollVars, callVars>>

\* ---------------------------------------------------------- run_pipeline
RECURSIVE InOrder(_)
\* The rows of a query in the order of their ids.
InOrder(S) ==
    IF S = {} THEN <<>>
    ELSE LET m == CHOOSE x \in S : \A y \in S : x <= y
         IN <<m>> \o InOrder(S \ {m})

\* FeedSource.id.in_(source_ids) at app.py:192 raises ArgumentError unless
\* source_ids is a list.
InRaises(i) == i \in {"scalar", "string"}

\* app.py:185-192, source_ids rejected by in_(): the exception leaves run_pipeline.
run_pipeline_begin_error(r) ==
    /\ tpc[r] = "begin"
    /\ InRaises(ids[r])
    /\ tpc' = [tpc EXCEPT ![r] = "except"]
    /\ ids' = [ids EXCEPT ![r] = "none"]
    /\ UNCHANGED <<configVars, statusVars, lockVars, storeVars, handlerVars,
                   feeds, entry, outcome, kept, feed, events, pollVars,
                   callVars>>

\* app.py:185-198: the sources to process are read from the store: all of
\* them, or those whose id is in the list.
run_pipeline_begin(r) ==
    /\ tpc[r] = "begin"
    /\ ~InRaises(ids[r])
    /\ \E chosen \in SUBSET sources :
          /\ ids[r] = "none" => chosen = sources
          /\ feeds' = [feeds EXCEPT ![r] = InOrder(chosen)]
    /\ tpc' = [tpc EXCEPT ![r] = "source"]
    /\ ids' = [ids EXCEPT ![r] = "none"]
    /\ UNCHANGED <<configVars, statusVars, lockVars, storeVars, handlerVars,
                   entry, outcome, kept, feed, events, pollVars, callVars>>

\* What feedparser.parse comes to for one source (app.py:204-212).
FeedOutcomes == {"raises", "empty", "bozo_empty", "entries", "bozo_entries"}

\* app.py:200-204: the next source is taken and its feed fetched and parsed.
run_pipeline_fetch(r) ==
    /\ tpc[r] = "source"
    /\ feeds[r] # <<>>
    /\ feeds' = [feeds EXCEPT ![r] = Tail(@)]
    /\ \E out \in FeedOutcomes : feed' = [feed EXCEPT ![r] = out]
    /\ tpc' = [tpc EXCEPT ![r] = "parsed"]
    /\ UNCHANGED <<configVars, statusVars, lockVars, storeVars, handlerVars,
                   ids, entry, outcome, kept, events, pollVars, callVars>>

\* The handling of a parse that lets its exception leave run_pipeline.
FeedVerdict_Uncaught(out) ==
    CASE out = "raises" -> "except"
      [] out \in {"empty", "bozo_empty"} -> "source"
      [] OTHER -> "entry"

\* app.py:205-214: where the run goes after the parse: a parse that raised
\* (210-212) and a feed without entries (207-209) end the source; a feed with
\* entries, malformed (bozo, 205-206: a log line) or not, has them processed.
FeedVerdict(out) ==
    CASE out = "raises" -> "source"
      [] out \in {"empty", "bozo_empty"} -> "source"
      [] OTHER -> "entry"

\* app.py:205-214: the parse is looked at and the first entry, if any, taken.
run_pipeline_feed(r) ==
    /\ tpc[r] = "parsed"
    /\ tpc' = [tpc EXCEPT ![r] = FeedVerdict(feed[r])]
    /\ IF FeedVerdict(feed[r]) = "entry"
       THEN \E e \in Served(served) : entry' = [entry EXCEPT ![r] = e]
       ELSE UNCHANGED entry
    /\ feed' = [feed EXCEPT ![r] = "none"]
    /\ events' = [events EXCEPT ![r] =
                    IF feed[r] = "raises" THEN @ \cup {"raised"} ELSE @]
    /\ UNCHANGED <<configVars, statusVars, lockVars, storeVars, handlerVars,
                   ids, feeds, outcome, kept, pollVars, callVars>>

\* The decision of lines 216-224 without the duplicate check of 221-222.
EntryVerdict_NoUrlCheck(e, arts) ==
    IF IsStale(e) THEN "stale"
    ELSE IF e.link = NoLink
    THEN (IF e.title = NoTitle THEN "escape" ELSE "error")
    ELSE IF e.title = NoTitle THEN "escape"
    ELSE "classify"

\* What lines 216-224 decide for entry e against the stored articles arts:
\*   "stale"     app.py:217-218
\*   "duplicate" app.py:221-222
\*   "error"     an attribute is missing and the handler of 250-252 logs it
\*   "escape"    the title is missing: the handler's own log line (252) raises
\*   "classify"  the entry goes on to the classifier
EntryVerdict(e, arts) ==
    IF IsStale(e) THEN "stale"
    ELSE IF e.link = NoLink
    THEN (IF e.title = NoTitle THEN "escape" ELSE "error")
    ELSE IF e.link # "" /\ \E a \in arts : a.original_url = e.link THEN "duplicate"
    ELSE IF e.title = NoTitle THEN "escape"
    ELSE "classify"

\* app.py:216-225: the date check, the duplicate check and the log line.
run_pipeline_entry_check(r) ==
    /\ tpc[r] = "entry"
    /\ LET v == EntryVerdict(entry[r], articles)
       IN  /\ tpc' = [tpc EXCEPT ![r] =
                        CASE v = "classify" -> "classify"
                          [] v = "escape" -> "except"
                          [] OTHER -> "next"]
           /\ entry' = [entry EXCEPT ![r] = IF v = "classify" THEN @ ELSE NoEntry]
           /\ outcome' = [outcome EXCEPT ![r] = v]
    /\ UNCHANGED <<configVars, statusVars, lockVars, storeVars, handlerVars,
                   ids, feeds, kept, feed, events, pollVars, callVars>>

\* The test of app.py:230 without its second half.
Skipped_RelevantOnly(res) == ~res.relevant

\* app.py:230: the entry is dropped after classification.
Skipped(res) == ~res.relevant \/ Strip(res.summary) = <<>>

\* app.py:234-242: the Article built from the entry (relevant is history: what
\* the classifier step said).
NewArticle(e, res) ==
    [title |-> Truncate300(e.title), content |-> res.summary,
     original_url |-> e.link, relevant |-> res.relevant]

\* The Article table with original_url unique and title not.
Unique_UrlOnly(arts, a) == \A b \in arts : b.original_url # a.original_url

\* The unique constraints of the Article table (app.py:49, 51).
Unique(arts, a) ==
    /\ \A b \in arts : b.title # a.title
    /\ \A b \in arts : b.original_url # a.original_url

\* db.session.add + commit (app.py:243-244) with the handlers of 247-251: the
\* row is inserted, or the commit raises IntegrityError and is rolled back.
Commit(arts, a) == IF Unique(arts, a) THEN arts \cup {a} ELSE arts

\* app.py:227-228: what the classifier may return for the entry's text, the
\* remote endpoint answering in any way.
Classified(key, e) ==
    {analyze_and_rewrite_with_gemini_pipeline(key, GetText(e), e.title, resp) :
        resp \in RemoteResponses}

\* What lines 228-251 come to for entry e, the classifier having returned res:
\*   "error"    the classifier call raised into the handler of 250-252
\*   "dropped"  app.py:230-232
\*   "saved"    the commit is accepted
\*   "rejected" the commit raises IntegrityError (app.py:247-248)
ProcessVerdict(e, res, arts) ==
    IF res.raised # "none" THEN "error"
    ELSE IF Skipped(res) THEN "dropped"
    ELSE IF Unique(arts, NewArticle(e, res)) THEN "saved"
    ELSE "rejected"

\* app.py:225-252: the text is extracted, classified and, if kept, committed.
run_pipeline_entry_process(r) ==
    /\ tpc[r] = "classify"
    /\ \E res \in Classified(GEMINI_API_KEY, entry[r]) :
          LET v == ProcessVerdict(entry[r], res, articles)
          IN  /\ articles' =
                    IF v \in {"saved", "rejected"}
                    THEN Commit(articles, NewArticle(entry[r], res))
                    ELSE articles
              /\ outcome' = [outcome EXCEPT ![r] = v]
              /\ kept' = [kept EXCEPT ![r] =
                            IF v \in {"saved", "rejected"} /\ entry[r].link # ""
                            THEN @ \cup {entry[r].link} ELSE @]
    /\ tpc' = [tpc EXCEPT ![r] = "next"]
    /\ entry' = [entry EXCEPT ![r] = NoEntry]
    /\ UNCHANGED <<configVars, statusVars, lockVars, sources, handlerVars, ids,
                   feeds, feed, events, pollVars, callVars>>

\* app.py:214: the feed has another entry.
run_pipeline_next_entry(r) ==
    /\ tpc[r] = "next"
    /\ \E e \in Served(served) : entry' = [entry EXCEPT ![r] = e]
    /\ tpc' = [tpc EXCEPT ![r] = "entry"]
    /\ outcome' = [outcome EXCEPT ![r] = "none"]
    /\ UNCHANGED <<configVars, statusVars, lockVars, storeVars, handlerVars,
                   ids, feeds, kept, feed, events, pollVars, callVars>>

\* app.py:214: the feed has no more entries.
run_pipeline_end_feed(r) ==
    /\ tpc[r] = "next"
    /\ tpc' = [tpc EXCEPT ![r] = "source"]
    /\ outcome' = [outcome EXCEPT ![r] = "none"]
    /\ UNCHANGED <<configVars, statusVars, lockVars, storeVars, handlerVars,
                   ids, feeds, entry, kept, feed, events, pollVars, callVars>>

\* app.py:200, 254-255: no source is left: FETCH_STATUS = "completed".
run_pipeline_finish(r) ==
    /\ tpc[r] = "source"
    /\ feeds[r] = <<>>
    /\ FETCH_STATUS' = "completed"
    /\ writer' = r
    /\ tpc' = [tpc EXCEPT ![r] = "release"]
    /\ events' = [events EXCEPT ![r] = {}]
    /\ UNCHANGED <<configVars, lockVars, storeVars, handlerVars, ids, feeds,
                   entry, outcome, kept, feed, pollVars, callVars>>

\* ---------------------------------------------- article and source routes
\* DELETE /api/articles/<id> (app.py:298-303).
delete_article ==
    /\ \E a \in articles :
          /\ articles' = articles \ {a}
          /\ kept' = [r \in Runs |-> kept[r] \ {a.original_url}]
    /\ UNCHANGED <<configVars, statusVars, lockVars, sources, handlerVars, tpc,
                   ids, feeds, entry, outcome, feed, events, pollVars,
                   callVars>>

\* POST /api/sources (app.py:310-320): a row with a new key and URL.
add_source ==
    /\ \E i \in SourceIds \ sources : sources' = sources \cup {i}
    /\ UNCHANGED <<configVars, statusVars, lockVars, articles, handlerVars,
                   threadVars, pollVars, callVars>>

\* DELETE /api/sources/<id> (app.py:322-327).
remove_source ==
    /\ \E i \in sources : sources' = sources \ {i}
    /\ UNCHANGED <<configVars, statusVars, lockVars, articles, handlerVars,
                   threadVars, pollVars, callVars>>

\* ------------------------------------------------ GET /api/fetch-status
\* Poll slots are first used in order; a slot that has answered keeps its
\* answer until it takes the next poll.
Slot(q) ==
    \/ qpc[q] = "done"
    \/ /\ qpc[q] = "idle"
       /\ \A p \in Queries : p < q => qpc[p] # "idle"

\* app.py:364: status_to_return = FETCH_STATUS (history: and the run whose
\* terminal status that is).
fetch_status_read(q) ==
    /\ Slot(q)
    /\ status_to_return' = [status_to_return EXCEPT ![q] = FETCH_STATUS]
    /\ readOf' = [readOf EXCEPT ![q] = writer]
    /\ qpc' = [qpc EXCEPT ![q] = "test"]
    /\ UNCHANGED <<configVars, statusVars, lockVars, storeVars, handlerVars,
                   threadVars, callVars>>

\* app.py:366: FETCH_STATUS is read again and found terminal.
fetch_status_test_terminal(q) ==
    /\ qpc[q] = "test"
    /\ FETCH_STATUS \in Terminal
    /\ qpc' = [qpc EXCEPT ![q] = "reset"]
    /\ UNCHANGED <<configVars, statusVars, lockVars, storeVars, handlerVars,
                   threadVars, status_to_return, readOf, callVars>>

\* Mutant of fetch_status_test_other: the reset of app.py:367 is made without
\* the check of app.py:366.
fetch_status_test_other_Unchecked(q) ==
    /\ qpc[q] = "test"
    /\ FETCH_STATUS \notin Terminal
    /\ FETCH_STATUS' = "idle"
    /\ writer' = 0
    /\ qpc' = [qpc EXCEPT ![q] = "done"]
    /\ UNCHANGED <<configVars, lockVars, storeVars, handlerVars, threadVars,
                   status_to_return, readOf, callVars>>

\* app.py:366, 368: FETCH_STATUS is not terminal: the local is answered as read.
fetch_status_test_other(q) ==
    /\ qpc[q] = "test"
    /\ FETCH_STATUS \notin Terminal
    /\ qpc' = [qpc EXCEPT ![q] = "done"]
    /\ UNCHANGED <<configVars, statusVars, lockVars, storeVars, handlerVars,
                   threadVars, status_to_return, readOf, callVars>>

\* app.py:367-368: FETCH_STATUS = "idle"; the local is answered.
fetch_status_reset(q) ==
    /\ qpc[q] = "reset"
    /\ FETCH_STATUS' = "idle"
    /\ writer' = 0
    /\ qpc' = [qpc EXCEPT ![q] = "done"]
    /\ UNCHANGED <<configVars, lockVars, storeVars, handlerVars, threadVars,
                   status_to_return, readOf, callVars>>

\* ---------------------------------------------------- the classifier alone
\* The texts run_pipeline hands to the classifier.
Contents == {GetText(e) : e \in Entries}

\* One call of analyze_and_rewrite_with_gemini_pipeline, kept with its result.
classifier_call ==
    /\ \E content \in Contents, title \in Titles, resp \in RemoteResponses :
          call' = [made |-> TRUE, content |-> content, resp |-> resp,
                   out |-> analyze_and_rewrite_with_gemini_pipeline(
                               GEMINI_API_KEY, content, title, resp)]
    /\ UNCHANGED <<configVars, statusVars, lockVars, storeVars, handlerVars,
                   threadVars, pollVars, tagged>>

\* One call of extract_related_company_pipeline, kept with its result.
tagger_call ==
    /\ \E text \in Texts :
          tagged' = [made |-> TRUE, text |-> text,
                     out |-> extract_related_company_pipeline(text)]
    /\ UNCHANGED <<configVars, statusVars, lockVars, storeVars, handlerVars,
                   threadVars, pollVars, call>>

\* ------------------------------------------------------- specifications
\* The state after start-up, the FeedSource table holding the rows srcs.
InitWith(srcs) ==
    /\ GEMINI_API_KEY \in BOOLEAN
    /\ served \in {"any", "dated"}
    /\ FETCH_STATUS = "idle"
    /\ fetch_lock = FALSE
    /\ holder = 0
    /\ writer = 0
    /\ sources = srcs
    /\ articles = {}
    /\ hpc = [r \in Runs |-> "new"]
    /\ body = [r \in Runs |-> NoBody]
    /\ tpc = [r \in Runs |-> "none"]
    /\ ids = [r \in Runs |-> "none"]
    /\ feeds = [r \in Runs |-> <<>>]
    /\ feed = [r \in Runs |-> "none"]
    /\ entry = [r \in Runs |-> NoEntry]
    /\ outcome = [r \in Runs |-> "none"]
    /\ kept = [r \in Runs |-> {}]
    /\ events = [r \in Runs |-> {}]
    /\ qpc = [q \in Queries |-> "idle"]
    /\ status_to_return = [q \in Queries |-> "none"]
    /\ readOf = [q \in Queries |-> 0]
    /\ call = NoCall
    /\ tagged = NoTag

fetch_news_route(r) ==
    \/ fetch_news_busy(r)
    \/ fetch_news_acquire(r)
    \/ fetch_news_parse_error(r)
    \/ fetch_news_start_thread(r)
    \/ fetch_news_respond(r)
    \/ fetch_news_respond_error(r)

\* The run thread but for the loop over the sources.
run_control(r) ==
    \/ run_background_fetch_start(r)
    \/ run_pipeline_begin_error(r)
    \/ run_pipeline_begin(r)
    \/ run_pipeline_finish(r)
    \/ run_background_fetch_except(r)
    \/ run_background_fetch_release(r)

\* The loop of run_pipeline over the sources and their entries.
run_loop(r) ==
    \/ run_pipeline_fetch(r)
    \/ run_pipeline_feed(r)
    \/ run_pipeline_entry_check(r)
    \/ run_pipeline_entry_process(r)
    \/ run_pipeline_next_entry(r)
    \/ run_pipeline_end_feed(r)

fetch_status(q) ==
    \/ fetch_status_read(q)
    \/ fetch_status_test_terminal(q)
    \/ fetch_status_test_other(q)
    \/ fetch_status_reset(q)

\* Run control: triggers, run threads and status polls, the FeedSource table
\* empty (every run finds no source to process).
InitControl == InitWith({}) /\ GEMINI_API_KEY = FALSE /\ served = "any"

NextControl ==
    \/ \E r \in Runs : fetch_news_route(r)
    \/ \E r \in Runs : run_control(r)
    \/ \E q \in Queries : fetch_status(q)

SpecControl == InitControl /\ [][NextControl]_vars

\* Ingestion: triggers, run threads with the whole pipeline, and the article
\* and source routes.
InitIngest == InitWith(SourceIds) /\ served = "any"

NextIngest ==
    \/ \E r \in Runs : fetch_news_route(r)
    \/ \E r \in Runs : run_control(r)
    \/ \E r \in Runs : run_loop(r)
    \/ delete_article
    \/ add_source
    \/ remove_source

SpecIngest == InitIngest /\ [][NextIngest]_vars

\* Runs over several sources: triggers and run threads with the whole
\* pipeline, the FeedSource table holding FeedIds and left alone.
InitSources == InitWith(FeedIds) /\ served = "dated"

NextSources ==
    \/ \E r \in Runs : fetch_news_route(r)
    \/ \E r \in Runs : run_control(r)
    \/ \E r \in Runs : run_loop(r)

SpecSources == InitSources /\ [][NextSources]_vars

\* The runs over the configured sources under scheduling: a started thread
\* keeps being scheduled and each of its calls returns (weak fairness of its
\* steps), and the entry list of a feed is finite, so the loop over the
\* entries of app.py:214 comes to leave it (strong fairness of that step).
\* The step of app.py:225-252 is enabled exactly when the thread stands at
\* "classify" (the classifier returns or raises for every answer), so its
\* weak fairness is stated on the position of the thread.
RunFairness ==
    \A r \in Runs :
        /\ WF_vars(run_control(r))
        /\ WF_vars(run_pipeline_fetch(r))
        /\ WF_vars(run_pipeline_feed(r))
        /\ WF_vars(run_pipeline_entry_check(r))
        /\ []<>(tpc[r] # "classify")
        /\ SF_vars(run_pipeline_end_feed(r))

SpecSourcesFair == InitSources /\ [][NextSources]_vars /\ RunFairness

\* The classifier as a function of its inputs and the remote answer.
InitClassifier == InitWith(SourceIds) /\ served = "any"

NextClassifier == classifier_call

SpecClassifier == InitClassifier /\ [][NextClassifier]_vars

\* The company tagger as a function of the text.
InitTagger == InitWith(SourceIds) /\ served = "any"

NextTagger == tagger_call

SpecTagger == InitTagger /\ [][NextTagger]_vars

\* ------------------------------------------------------------------ claims
\* Run r is executing run_pipeline (app.py:185-255).
InRunPipeline(r) ==
    tpc[r] \in {"begin", "source", "parsed", "entry", "classify", "next"}

\* The step is a call of fetch_lock.release() made for trigger r, by its
\* handler (app.py:358) or by its run thread (app.py:350).
ReleaseFor(r) ==
    \/ run_background_fetch_release(r)
    \/ fetch_news_parse_error(r)
    \/ fetch_news_respond_error(r)

\* Trigger r and its run thread have ended.
Ended(r) == hpc[r] = "done" /\ tpc[r] \in {"none", "dead"}

\* C1: at most one ingestion run executes at any time: there is never a state
\* in which two run threads are inside run_pipeline.
C1_AtMostOneRun ==
    Cardinality({r \in Runs : InRunPipeline(r)}) <= 1

\* C2: for every successful acquisition of fetch_lock the lock is released
\* exactly once: every release made for a trigger finds the lock held by that
\* trigger's acquisition (never free, never held for another run), and a
\* trigger that has ended does not leave its acquisition in place.
C2_ReleasedExactlyOnce ==
    /\ [](\A r \in Runs : Ended(r) => holder # r)
    /\ [][\A r \in Runs : ReleaseFor(r) => (fetch_lock /\ holder = r)]_vars

\* The transitions of FETCH_STATUS the claim C3 allows.
SpecEdges ==
    {<<"idle", "running">>, <<"running", "completed">>, <<"running", "error">>,
     <<"completed", "idle">>, <<"error", "idle">>}

\* C3 as stated: FETCH_STATUS changes only along idle->running,
\* running->completed, running->error, completed->idle and error->idle.
C3_OnlySpecEdges ==
    [][FETCH_STATUS' # FETCH_STATUS => <<FETCH_STATUS, FETCH_STATUS'>> \in SpecEdges]_vars

\* C3 as amended: every change of FETCH_STATUS is one of four writes: "running"
\* by a run thread that starts, "completed" by a run whose run_pipeline
\* returns, "error" by a run whose run_pipeline raised, "idle" by a status poll
\* that found the status completed or error at its check; the value written
\* over is not constrained.
C3_StatusWriters ==
    [][FETCH_STATUS' # FETCH_STATUS =>
         \/ /\ FETCH_STATUS' = "running"
            /\ \E r \in Runs : tpc[r] = "start" /\ tpc'[r] = "begin"
         \/ /\ FETCH_STATUS' = "completed"
            /\ \E r \in Runs : tpc[r] = "source" /\ feeds[r] = <<>> /\ tpc'[r] = "release"
         \/ /\ FETCH_STATUS' = "error"
            /\ \E r \in Runs : tpc[r] = "except" /\ tpc'[r] = "release"
         \/ /\ FETCH_STATUS' = "idle"
            /\ \E q \in Queries : qpc[q] = "reset" /\ qpc'[q] = "done"]_vars

\* C3 witness: one run has ended and a poll has answered its terminal status,
\* and a later run has started and set the status to running.
C3_Witness ==
    \E r, p \in Runs, q \in Queries :
        /\ tpc[r] = "dead" /\ tpc[p] = "begin" /\ FETCH_STATUS = "running"
        /\ qpc[q] = "done" /\ status_to_return[q] \in Terminal /\ readOf[q] = r

\* C4: the terminal status of one run is answered by at most one status poll:
\* no two polls have answered with the terminal status of the same run.
C4_TerminalAnsweredOnce ==
    \A q1, q2 \in Queries :
        (/\ q1 # q2
         /\ qpc[q1] = "done" /\ qpc[q2] = "done"
         /\ status_to_return[q1] \in Terminal /\ status_to_return[q2] \in Terminal)
        => readOf[q1] # readOf[q2]

\* ------------------------------------------------- ingestion (SpecIngest)
\* Run r ended before the state in which run p, triggered later, stands.
EndedBefore(r, p) == r < p /\ tpc[r] = "dead"

WithUrl(arts, u) == {a \in arts : a.original_url = u}

\* C5 as stated: when a fresh entry whose URL an earlier, ended run got back
\* from the classifier as relevant with content (and whose Article nobody has
\* deleted) is offered again, the store holds exactly one Article with that URL
\* and the later run does not take the entry to the classifier.
C5_SecondRunSkips ==
    \A r, p \in Runs :
        (/\ EndedBefore(r, p)
         /\ tpc[p] \in {"entry", "classify"}
         /\ ~IsStale(entry[p])
         /\ entry[p].link \in kept[r])
        => /\ tpc[p] = "entry"
           /\ Cardinality(WithUrl(articles, entry[p].link)) = 1

\* C5 amended: when such an entry is offered again, the later run skips it
\* before the classifier, writing nothing, exactly when an Article with its URL
\* is in the store at the duplicate check, and then that Article is the only
\* one with the URL; when none is there (the first commit was rejected for the
\* title) an entry with a title goes to the classifier again.
C5_SkipsWhileStored ==
    [][\A r, p \in Runs :
         (/\ EndedBefore(r, p)
          /\ run_pipeline_entry_check(p)
          /\ ~IsStale(entry[p])
          /\ entry[p].link \in kept[r])
         => IF WithUrl(articles, entry[p].link) # {}
            THEN /\ tpc'[p] = "next"
                 /\ outcome'[p] = "duplicate"
                 /\ articles' = articles
                 /\ Cardinality(WithUrl(articles', entry[p].link)) = 1
            ELSE entry[p].title # NoTitle => tpc'[p] = "classify"]_vars

\* A later run has just skipped, as a duplicate, an entry whose URL an earlier
\* run had kept.
C5_Witness ==
    \E r, p \in Runs :
        /\ EndedBefore(r, p)
        /\ tpc[p] = "next"
        /\ outcome[p] = "duplicate"
        /\ \E u \in kept[r] : WithUrl(articles, u) # {}

\* C6: no two stored Articles have the same title as stored (cut to 300
\* characters) and no two have the same origin URL.
C6_UniqueTitleAndUrl ==
    \A a, b \in articles :
        /\ a.title = Truncate300(a.title)
        /\ a # b => (a.title # b.title /\ a.original_url # b.original_url)

\* Two Articles are stored and a commit has just been rejected.
C6_Witness ==
    /\ Cardinality(articles) = 2
    /\ \E r \in Runs : tpc[r] = "next" /\ outcome[r] = "rejected"

\* C7: every stored Article was reported relevant by the classifier step and
\* has content that is not empty after trimming; the step that gets
\* is_ai_related = false, or an empty or whitespace-only summary, back from the
\* classifier writes nothing.
C7_OnlyRelevantWithContent ==
    /\ [](\A a \in articles : a.relevant /\ Strip(a.content) # <<>>)
    /\ [][\A r \in Runs :
            (tpc[r] = "classify" /\ tpc'[r] = "next" /\ outcome'[r] = "dropped")
            => articles' = articles]_vars

\* With a credential configured, a run has just dropped an entry after the
\* classifier while an Article is stored.
C7_Witness ==
    /\ GEMINI_API_KEY
    /\ articles # {}
    /\ \E r \in Runs : tpc[r] = "next" /\ outcome[r] = "dropped"

\* The age, in hours, from which an entry is 3 days old or older.
StaleHours == StaleDays * HoursPerDay

\* C8: the check of an entry dated 3 days or more before now (exactly 3 days
\* included) ends the entry without a classifier call, a store write or an
\* error; an entry younger than that (one dated in the future included) is
\* not dropped as stale, and only such entries reach the classifier.
C8_StalenessWindow ==
    /\ [](\A r \in Runs : tpc[r] = "classify" => entry[r].age < StaleHours)
    /\ [][\A r \in Runs :
            (tpc[r] = "entry" /\ tpc'[r] # "entry")
            => IF entry[r].age >= StaleHours
               THEN /\ tpc'[r] = "next"
                    /\ outcome'[r] = "stale"
                    /\ articles' = articles
                    /\ FETCH_STATUS' = FETCH_STATUS
               ELSE /\ outcome'[r] # "stale"
                    /\ outcome'[r] = EntryVerdict(entry[r], articles)]_vars

\* A run has just dropped an entry as stale.
C8_Witness == \E r \in Runs : tpc[r] = "next" /\ outcome[r] = "stale"

\* Entry e has a title and a link and its summary has text.
ValidWithText(e) ==
    e.title # NoTitle /\ e.link # NoLink /\ Strip(GetText(e)) # <<>>

\* The Article the bypass makes of entry e.
BypassArticle(e) ==
    [title |-> Truncate300(e.title), content |-> GetText(e),
     original_url |-> e.link, relevant |-> TRUE]

\* C10 as stated: with no credential configured, the classifier step of an
\* entry that has a title, a link and text leaves the Article with the entry's
\* markup-stripped text in the store.
C10_BypassPersistsAll ==
    [][\A r \in Runs :
         (/\ ~GEMINI_API_KEY
          /\ tpc[r] = "classify" /\ tpc'[r] = "next"
          /\ ValidWithText(entry[r]))
         => BypassArticle(entry[r]) \in articles']_vars

\* C10 amended: with no credential configured the classifier makes no request
\* and returns (true, content); the step stores the Article with the entry's
\* markup-stripped text when the entry has text and no stored Article has the
\* same title (cut to 300 characters) or the same origin URL, and writes
\* nothing otherwise.
C10_BypassPersistsUnlessRejected ==
    [][\A r \in Runs :
         (~GEMINI_API_KEY /\ tpc[r] = "classify" /\ tpc'[r] = "next")
         => LET e == entry[r]
                a == BypassArticle(e)
            IN  /\ Classified(GEMINI_API_KEY, e)
                     = {Outcome(TRUE, GetText(e), 0, "none")}
                /\ articles' =
                     IF /\ Strip(GetText(e)) # <<>>
                        /\ \A b \in articles :
                              b.title # a.title /\ b.original_url # a.original_url
                     THEN articles \cup {a}
                     ELSE articles]_vars

\* With no credential configured, a run has just stored an entry's text.
C10_Witness ==
    /\ ~GEMINI_API_KEY
    /\ \E r \in Runs : tpc[r] = "next" /\ outcome[r] = "saved"
    /\ \E a \in articles : a.content = <<"a", "\n", "b">>

\* ------------------------------------------- the classifier (SpecClassifier)
\* The remote call failed: a network error, a non-2xx status, or a payload
\* that the parse of app.py:162-166 does not turn into a JSON object.
RemoteFailed(resp) ==
    \/ resp.kind \in {"neterr", "status", "badenv"}
    \/ LET parsed == JsonLoads(CleanText(resp.text))
       IN  parsed.exc # "none" \/ parsed.doc \notin JsonObjects

\* C9: with a credential configured, a call whose remote request failed
\* returns (true, the content it was given), has made one request and raises
\* nothing.
C9_FailureFallback ==
    (call.made /\ GEMINI_API_KEY /\ RemoteFailed(call.resp))
    => call.out = Outcome(TRUE, call.content, 1, "none")

\* A call with a credential and content was answered with a JSON document
\* that is not an object.
C9_Witness ==
    /\ call.made
    /\ GEMINI_API_KEY
    /\ call.content # <<>>
    /\ call.resp.kind = "text"
    /\ JsonLoads(CleanText(call.resp.text)) = [exc |-> "none", doc |-> "[]"]

\* ------------------------------------- runs over several sources (SpecSources)
\* C11: whatever an entry carries or lacks, a run that is processing it goes
\* on to the next entry: the entry's failure does not leave the loop (and so
\* the run does not end with status error on its account).
C11_EntryFailureContained ==
    [][\A r \in Runs :
         tpc[r] \in {"entry", "classify"}
         => tpc'[r] \in {"entry", "classify", "next"}]_vars

\* C12: after a parse that reports a malformed document (bozo) or yields no
\* entries, the run goes to the next source without processing any entry of
\* the feed.
C12_MalformedFeedSkipsEntries ==
    [][\A r \in Runs :
         (tpc[r] = "parsed" /\ feed[r] \in {"bozo_entries", "bozo_empty", "empty"})
         => tpc'[r] \in {"parsed", "source"}]_vars

\* C14: a fetch that raises ends its source with no write, the later sources
\* still to come in their order, and a run in which a fetch raised does not
\* end with status error.
C14_RaisingSourceContained ==
    /\ [][\A r \in Runs :
            (tpc[r] = "parsed" /\ feed[r] = "raises" /\ tpc'[r] # "parsed")
            => /\ tpc'[r] = "source"
               /\ articles' = articles
               /\ feeds'[r] = feeds[r]]_vars
    /\ [](\A r \in Runs : "raised" \in events[r] => tpc[r] # "except")

\* C15: the step in which an exception leaves run_pipeline writes nothing to
\* the store; the run then sets the status to error, leaving the store and its
\* remaining sources alone, releases the lock and ends, and it processes no
\* further source; a trigger that finds the lock free is accepted.
C15_RunLevelFailure ==
    [][\A r \in Runs :
         /\ (InRunPipeline(r) /\ tpc'[r] = "except") => articles' = articles
         /\ (tpc[r] = "except" /\ tpc'[r] # "except")
            => /\ tpc'[r] = "release"
               /\ FETCH_STATUS' = "error" /\ writer' = r
               /\ articles' = articles
               /\ feeds'[r] = feeds[r]
         /\ (tpc[r] = "release" /\ tpc'[r] # "release")
            => /\ tpc'[r] = "dead"
               /\ ~fetch_lock'
               /\ articles' = articles
               /\ feeds'[r] = feeds[r]
         /\ tpc[r] = "dead" => (tpc'[r] = "dead" /\ feeds'[r] = feeds[r])
         /\ (hpc[r] = "new" /\ hpc'[r] # "new" /\ ~fetch_lock)
            => (hpc'[r] = "parse" /\ fetch_lock')]_vars

\* A run has ended on an exception that left run_pipeline with a source still
\* to process and an Article in the store, the status is error, and a later
\* trigger has been accepted.
C15_Witness ==
    \E r, p \in Runs :
        /\ EndedBefore(r, p)
        /\ feeds[r] # <<>>
        /\ articles # {}
        /\ FETCH_STATUS = "error" /\ writer = r
        /\ hpc[p] = "parse"

\* C16: the step whose commit is rejected for uniqueness leaves the store and
\* the status as they were, and a run that has had a commit rejected (it got
\* an entry with a URL back from the classifier as relevant, and the store
\* holds no Article with that URL) does not end on an exception.
C16_RejectedCommitContained ==
    /\ [][\A r \in Runs :
            (tpc[r] = "classify" /\ tpc'[r] = "next" /\ outcome'[r] = "rejected")
            => (articles' = articles /\ FETCH_STATUS' = FETCH_STATUS)]_vars
    /\ [](\A r \in Runs :
            tpc[r] = "except" => \A u \in kept[r] : WithUrl(articles, u) # {})

\* C17: every run whose thread was started comes to end with the lock free,
\* and a thread comes to its end only through the step that sets the status to
\* completed or error.
C17_AcceptedRunTerminates ==
    /\ \A r \in Runs : (tpc[r] = "start") ~> (tpc[r] = "dead" /\ ~fetch_lock)
    /\ [][\A r \in Runs :
            /\ (tpc[r] # "release" /\ tpc'[r] = "release")
               => (FETCH_STATUS' \in Terminal /\ writer' = r)
            /\ (tpc[r] # "dead" /\ tpc'[r] = "dead") => tpc[r] = "release"]_vars

\* A run over both sources has stored an Article, set the status to completed
\* and ended, the lock is free, and the next trigger has been accepted.
C17_Witness ==
    \E r, p \in Runs :
        /\ EndedBefore(r, p)
        /\ feeds[r] = <<>>
        /\ articles # {}
        /\ FETCH_STATUS = "completed" /\ writer = r
        /\ ~fetch_lock
        /\ tpc[p] = "start"

\* A thread of run r exists and has not ended.
Unfinished(r) == tpc[r] \notin {"none", "dead"}

\* C18: whenever FETCH_STATUS is running, fetch_lock is held, by the
\* acquisition of a trigger whose run thread has not ended, and that thread is
\* the only unfinished one.
C18_RunningHoldsLock ==
    FETCH_STATUS = "running"
    => /\ fetch_lock
       /\ holder \in Runs /\ Unfinished(holder)
       /\ Cardinality({r \in Runs : Unfinished(r)}) = 1

\* The thread of run r has been started and has not yet set a terminal status.
InProgress(r) ==
    tpc[r] \in {"start", "begin", "source", "parsed", "entry", "classify",
                "next", "except"}

\* C19: idle is never written over running, and a status poll that reads
\* FETCH_STATUS (app.py:364) while a run is in progress reads running.
C19_PollSeesRunning ==
    /\ [][FETCH_STATUS = "running" => FETCH_STATUS' # "idle"]_vars
    /\ [][\A q \in Queries :
            (/\ qpc[q] # "test" /\ qpc'[q] = "test"
             /\ \E r \in Runs : InProgress(r))
            => status_to_return'[q] = "running"]_vars

\* C20: a status poll that writes idle over completed or error (app.py:367)
\* answers the value it writes over.
C20_ResetAnswersTerminal ==
    [][\A q \in Queries :
         (qpc[q] = "reset" /\ qpc'[q] = "done" /\ FETCH_STATUS \in Terminal)
         => status_to_return[q] = FETCH_STATUS]_vars

\* --------------------------------------------- the company tagger (SpecTagger)
\* Word w stands in text t as a whole word between spaces or the ends of the
\* text, whatever its case.
HasWord(t, w) ==
    \E i \in 1..Len(t) :
        /\ Lower(t[i]) = w
        /\ i = 1 \/ t[i - 1] = " "
        /\ i = Len(t) \/ t[i + 1] = " "

\* apple occurs in text t, and only inside longer words.
OnlyInsideWords(t, w) ==
    /\ \E i \in 1..Len(t) : Lower(t[i]) = w
    /\ ~HasWord(t, w)

\* C13 as stated: a text with apple as a whole space-delimited word is tagged
\* Apple; a text with apple only inside a longer word is tagged none.
C13_AppleTagged ==
    tagged.made
    => /\ HasWord(tagged.text, "apple") => tagged.out = "Apple"
       /\ OnlyInsideWords(tagged.text, "apple") => tagged.out = "None"

\* The names before Apple in the list of candidates.
BeforeApple == {"google", "openai", "meta", "anthropic", "xai", "microsoft"}

\* C13 amended: the tag is Apple when apple is a whole space-delimited word
\* of the text and no candidate listed before Apple is one; a text in which
\* no candidate is a whole word, apple standing only inside a longer word, is
\* tagged none; a text with an earlier candidate as a whole word is tagged
\* with an earlier candidate.
C13_AppleTaggedUnlessEarlier ==
    tagged.made
    => LET t == tagged.text
           earlier == \E w \in BeforeApple : HasWord(t, w)
       IN  /\ (HasWord(t, "apple") /\ ~earlier) => tagged.out = "Apple"
           /\ (OnlyInsideWords(t, "apple") /\ ~earlier) => tagged.out = "None"
           /\ earlier => Lower(tagged.out) \in BeforeApple

\* The tagger was called on "sn Apple": apple as a whole word, in capitals,
\* and tagged Apple.
C13_Witness ==
    /\ tagged.made
    /\ tagged.text = <<"sn", " ", "Apple">>
    /\ tagged.out = "Apple"

====
